---------------------------- MODULE Spec2Model ----------------------------
(* AniList-id -> internal-id resolution and episode-list extraction of the   *)
(* anime-api repository.  Strings are sequences of one-character strings;    *)
(* JavaScript null/undefined are sentinel sequences that no text can equal.  *)
EXTENDS Naturals, Sequences, FiniteSets, TLC

VARIABLES
  ANILIST_ID_MAPPING,  \* the controller's static table (never assigned)
  ANILIST_CACHE,       \* the controller's Map: external id -> internal id
  ANILIST_ID_CACHE,    \* the helper's Map: external id -> internal id
  req,                 \* per request slot: the handler's locals and position
  firstResolved,       \* history: per entry point and id, the id the first
                       \* successful resolution returned
  remote,              \* the remote services' answers, where they are a fixed
                       \* function of the request
  matcher,             \* the title functions' arguments and values
  document             \* a search document, the term it answers, and what the
                       \* resolver's loop body makes of it

vars == <<ANILIST_ID_MAPPING, ANILIST_CACHE, ANILIST_ID_CACHE, req, firstResolved,
          remote, matcher, document>>

-----------------------------------------------------------------------------
(* JavaScript values *)

Null == <<"null">>
Undefined == <<"undefined">>
NaN == <<"NaN">>
NoEntry == <<"no-entry">>
NullList == <<<<"null-list">>>>   \* null where an array of strings is expected

\* JavaScript truthiness of a string-or-null value
Truthy(v) == v # Null /\ v # Undefined /\ v # <<>>

Upper == <<"A","B","C","D","E","F","G","H","I","J","K","L","M",
           "N","O","P","Q","R","S","T","U","V","W","X","Y","Z">>
Lower == <<"a","b","c","d","e","f","g","h","i","j","k","l","m",
           "n","o","p","q","r","s","t","u","v","w","x","y","z">>
Digits == {"0","1","2","3","4","5","6","7","8","9"}
DigitSeq == <<"0","1","2","3","4","5","6","7","8","9">>

Range(s) == {s[i] : i \in 1..Len(s)}

IndexIn(c, s) == CHOOSE i \in 1..Len(s) : s[i] = c

\* String.prototype.toLowerCase on the ASCII letters
toLowerCase(s) ==
  [i \in 1..Len(s) |-> IF s[i] \in Range(Upper) THEN Lower[IndexIn(s[i], Upper)] ELSE s[i]]

IsAlnumLower(c) == c \in Range(Lower) \cup Digits

\* String.prototype.includes
includes(hay, needle) ==
  \E i \in 0..Len(hay) : i + Len(needle) <= Len(hay)
                          /\ SubSeq(hay, i + 1, i + Len(needle)) = needle

\* Array.prototype.includes
arrayIncludes(arr, v) == \E i \in 1..Len(arr) : arr[i] = v

IsSpace(c) == c \in {" ", "\t"}

RECURSIVE trimStart(_)
trimStart(s) == IF s # <<>> /\ IsSpace(Head(s)) THEN trimStart(Tail(s)) ELSE s

RECURSIVE trimEnd(_)
trimEnd(s) ==
  IF s # <<>> /\ IsSpace(s[Len(s)]) THEN trimEnd(SubSeq(s, 1, Len(s) - 1)) ELSE s

\* String.prototype.trim
trim(s) == trimEnd(trimStart(s))

\* s.split(sep)[0]: the text before the first separator
RECURSIVE splitFirst(_, _)
splitFirst(s, sep) ==
  IF s = <<>> \/ Head(s) = sep THEN <<>> ELSE <<Head(s)>> \o splitFirst(Tail(s), sep)

\* s.split(sep).pop(): the text after the last separator
RECURSIVE splitPop(_, _)
splitPop(s, sep) ==
  IF s = <<>> THEN <<>>
  ELSE IF s[Len(s)] = sep THEN <<>>
  ELSE splitPop(SubSeq(s, 1, Len(s) - 1), sep) \o <<s[Len(s)]>>

\* a test against /^\d*$/, which the empty string passes
isAnilistId_Star(id) == \A i \in 1..Len(id) : id[i] \in Digits

\* /^\d+$/.test(id)
isAnilistId(id) == id # <<>> /\ \A i \in 1..Len(id) : id[i] \in Digits

\* parseInt(id): the leading decimal digits as a number, NaN when there are none
RECURSIVE digitsValue(_)
digitsValue(s) ==
  IF s = <<>> THEN 0
  ELSE 10 * digitsValue(SubSeq(s, 1, Len(s) - 1)) + (IndexIn(s[Len(s)], DigitSeq) - 1)

RECURSIVE digitPrefix(_)
digitPrefix(s) ==
  IF s # <<>> /\ Head(s) \in Digits THEN <<Head(s)>> \o digitPrefix(Tail(s)) ELSE <<>>

parseInt(s) == IF digitPrefix(s) = <<>> THEN NaN ELSE digitsValue(digitPrefix(s))

\* Number(attr): absent attribute -> NaN, "" -> 0, digits -> their value
Number(s) ==
  IF s = Undefined THEN NaN
  ELSE IF s = <<>> THEN 0
  ELSE IF isAnilistId(s) THEN digitsValue(s) ELSE NaN

-----------------------------------------------------------------------------
(* Title matcher *)

Min2(a, b) == IF a <= b THEN a ELSE b
Max2(a, b) == IF a >= b THEN a ELSE b

\* the normalize arrow function of isReasonableMatch
normalize(str) == SelectSeq(toLowerCase(str), IsAlnumLower)

\* row j of the track matrix, cell by cell from the row above; c is str2[j],
\* and `row` holds the cells track[j][0 .. Len(row) - 1] filled so far
RECURSIVE trackRow(_, _, _, _)
trackRow(str1, c, above, row) ==
  LET i == Len(row)
  IN  IF i > Len(str1) THEN row
      ELSE LET indicator == IF str1[i] = c THEN 0 ELSE 1
           IN  trackRow(str1, c, above,
                        Append(row, Min2(Min2(row[i] + 1, above[i + 1] + 1),
                                         above[i] + indicator)))

\* the rows j .. Len(str2) of the track matrix; the value is the last row
RECURSIVE trackRows(_, _, _, _)
trackRows(str1, str2, j, above) ==
  IF j > Len(str2) THEN above
  ELSE trackRows(str1, str2, j + 1, trackRow(str1, str2[j], above, <<j>>))

\* a row in which the step from the cell on the left costs 2
RECURSIVE trackRow_Lopsided(_, _, _, _)
trackRow_Lopsided(str1, c, above, row) ==
  LET i == Len(row)
  IN  IF i > Len(str1) THEN row
      ELSE LET indicator == IF str1[i] = c THEN 0 ELSE 1
           IN  trackRow_Lopsided(str1, c, above,
                        Append(row, Min2(Min2(row[i] + 2, above[i + 1] + 1),
                                         above[i] + indicator)))

RECURSIVE trackRows_Lopsided(_, _, _, _)
trackRows_Lopsided(str1, str2, j, above) ==
  IF j > Len(str2) THEN above
  ELSE trackRows_Lopsided(str1, str2, j + 1, trackRow_Lopsided(str1, str2[j], above, <<j>>))

\* a distance in which one of the two one-character edits costs 2
levenshteinDistance_Lopsided(str1, str2) ==
  trackRows_Lopsided(str1, str2, 1, [i \in 1..(Len(str1) + 1) |-> i - 1])[Len(str1) + 1]

\* track[str2.length][str1.length] of the filled matrix; row 0 is 0 .. str1.length
levenshteinDistance(str1, str2) ==
  trackRows(str1, str2, 1, [i \in 1..(Len(str1) + 1) |-> i - 1])[Len(str1) + 1]

\* a threshold test that also accepts a score of exactly 0.7
similarityAboveThreshold_AtLeast(longerLength, distance) ==
  10 * (longerLength - distance) >= 7 * longerLength

\* similarityScore > 0.7, with similarityScore = (longerLength - distance) / longerLength
similarityAboveThreshold(longerLength, distance) ==
  10 * (longerLength - distance) > 7 * longerLength

\* a matcher without the substring rule
isReasonableMatch_NoSubstring(title1, title2) ==
  IF ~Truthy(title1) \/ ~Truthy(title2) THEN FALSE
  ELSE LET normalizedTitle1 == normalize(title1)
           normalizedTitle2 == normalize(title2)
           longerLength == Max2(Len(normalizedTitle1), Len(normalizedTitle2))
       IN  IF normalizedTitle1 = normalizedTitle2 THEN TRUE
           ELSE similarityAboveThreshold(
                  longerLength, levenshteinDistance(normalizedTitle1, normalizedTitle2))

\* a matcher that goes by the similarity score alone
isReasonableMatch_ScoreOnly(title1, title2) ==
  IF ~Truthy(title1) \/ ~Truthy(title2) THEN FALSE
  ELSE LET normalizedTitle1 == normalize(title1)
           normalizedTitle2 == normalize(title2)
       IN  similarityAboveThreshold(
             Max2(Len(normalizedTitle1), Len(normalizedTitle2)),
             levenshteinDistance(normalizedTitle1, normalizedTitle2))

isReasonableMatch(title1, title2) ==
  IF ~Truthy(title1) \/ ~Truthy(title2) THEN FALSE
  ELSE LET normalizedTitle1 == normalize(title1)
           normalizedTitle2 == normalize(title2)
           longerLength == Max2(Len(normalizedTitle1), Len(normalizedTitle2))
       IN  IF normalizedTitle1 = normalizedTitle2 THEN TRUE
           ELSE IF includes(normalizedTitle1, normalizedTitle2)
                   \/ includes(normalizedTitle2, normalizedTitle1) THEN TRUE
           ELSE IF longerLength = 0 THEN TRUE
           ELSE similarityAboveThreshold(
                  longerLength, levenshteinDistance(normalizedTitle1, normalizedTitle2))

IsWordOrSpace(c) == c \in Range(Lower) \cup Range(Upper) \cup Digits \cup {"_"} \/ IsSpace(c)

\* .replace(/\s+/g, ' '): every run of whitespace becomes one space
RECURSIVE collapseSpaces(_)
collapseSpaces(s) ==
  IF s = <<>> THEN <<>>
  ELSE IF IsSpace(Head(s)) THEN <<" ">> \o collapseSpaces(trimStart(s))
  ELSE <<Head(s)>> \o collapseSpaces(Tail(s))

\* a cleanseTitle that trims before it removes and collapses
cleanseTitle_TrimFirst(title) ==
  IF ~Truthy(title) THEN <<>>
  ELSE collapseSpaces(SelectSeq(trim(toLowerCase(title)), IsWordOrSpace))

cleanseTitle(title) ==
  IF ~Truthy(title) THEN <<>>
  ELSE trim(collapseSpaces(SelectSeq(toLowerCase(title), IsWordOrSpace)))

-----------------------------------------------------------------------------
(* Static table and caches *)

\* entries of the object literal ANILIST_ID_MAPPING, as <<key, value>> pairs
MappingEntries ==
  {  <<<<"2","1">>, <<"o","n","e","-","p","i","e","c","e","-","1","0","0">>>>,
     <<<<"1">>, <<"c","o","w","b","o","y","-","b","e","b","o","p">>>>,
     <<<<"5">>, <<"n","a","r","u","t","o">>>>,
     <<<<"2","0">>, <<"n","a","r","u","t","o","-","s","h","i","p","p","u","d","e","n">>>> }

MappingKeys == {e[1] : e \in MappingEntries}

InitialMapping == [k \in MappingKeys |-> (CHOOSE e \in MappingEntries : e[1] = k)[2]]

\* table[id] on a plain object: undefined for a key it does not hold
lookup(table, id) == IF id \in DOMAIN table THEN table[id] ELSE Undefined

\* Map.prototype.has / get / set on a cache
cacheHas(cache, id) == cache[id] # NoEntry
cacheGet(cache, id) == IF cacheHas(cache, id) THEN cache[id] ELSE Undefined
cacheSet_Dropped(cache, id, v) == cache   \* a set that stores nothing
cacheSet(cache, id, v) == [cache EXCEPT ![id] = v]

-----------------------------------------------------------------------------
(* Query terms and candidates *)

\* animeData.synonyms || []
synonymsOf(animeData) ==
  IF animeData.synonyms = NullList THEN <<>> ELSE animeData.synonyms

\* the term list without its .filter(Boolean)
searchTerms_Unfiltered(animeData) ==
  <<animeData.english, animeData.romaji>> \o synonymsOf(animeData)

\* a term list that puts the synonyms before the two titles
searchTerms_SynonymsFirst(animeData) ==
  SelectSeq(synonymsOf(animeData) \o <<animeData.english, animeData.romaji>>, Truthy)

\* [english, romaji, ...synonyms].filter(Boolean)
searchTerms(animeData) ==
  SelectSeq(<<animeData.english, animeData.romaji>> \o synonymsOf(animeData), Truthy)

\* the first part of each title, kept when it has a space and is not a term already
titleFirstParts(terms) ==
  LET firsts == [i \in 1..Len(terms) |-> trim(splitFirst(terms[i], ":"))]
      keep(t) == Truthy(t) /\ includes(t, <<" ">>) /\ ~arrayIncludes(terms, t)
  IN  SelectSeq(firsts, keep)

\* the controller's allSearchTerms
allSearchTerms(animeData) ==
  searchTerms(animeData) \o titleFirstParts(searchTerms(animeData))

\* the terms a request's resolver walks through, by entry point
termsOf(entry, animeData) ==
  IF animeData.kind # "media" THEN <<>>
  ELSE IF entry = "getEpisodesByAnilistId" THEN allSearchTerms(animeData)
  ELSE searchTerms(animeData)

\* foundAnimes: one {title, id} per result item that has a link
foundAnimes(items) ==
  LET withLink == SelectSeq(items, LAMBDA it : Truthy(it.href))
  IN  [i \in 1..Len(withLink) |->
         [title |-> trim(withLink[i].text), id |-> splitPop(withLink[i].href, "/")]]

\* the first candidate isReasonableMatch accepts for the term, 0 when there is none
firstMatch(found, term) ==
  IF \E i \in 1..Len(found) : isReasonableMatch(found[i].title, term)
  THEN CHOOSE i \in 1..Len(found) :
         /\ isReasonableMatch(found[i].title, term)
         /\ \A k \in 1..(i - 1) : ~isReasonableMatch(found[k].title, term)
  ELSE 0

\* what one search document decides for its term: the for-loop body after the parse
termOutcome(items, term) ==
  LET found == foundAnimes(items)
      m == firstMatch(found, term)
  IN  IF Len(items) > 0 /\ m > 0 THEN [kind |-> "match", id |-> found[m].id]
      ELSE IF Len(items) > 0 /\ Len(found) > 0 THEN [kind |-> "fallback", id |-> found[1].id]
      ELSE [kind |-> "none", id |-> Null]

-----------------------------------------------------------------------------
(* Episode extractor *)

\* one entry of res.episodes, from one anchor of the listing fragment
episodeRecord(el) ==
  [ episode_no     |-> Number(el.dataNumber),
    id             |-> IF el.href = Undefined \/ ~Truthy(splitPop(el.href, "/"))
                       THEN Null ELSE splitPop(el.href, "/"),
    title          |-> IF el.title = Undefined \/ ~Truthy(trim(el.title))
                       THEN Null ELSE trim(el.title),
    japanese_title |-> el.jname,
    filler         |-> el.filler ]

\* anilistId read from the detail page's #syncData script
syncAnilistId(page) ==
  IF page.sync = "json" /\ Truthy(page.anilist_id) THEN page.anilist_id ELSE Null

\* the res object extractEpisodesList builds once both fetches have succeeded
episodesResult(anchors, anilistId) ==
  LET episodes == [i \in 1..Len(anchors) |-> episodeRecord(anchors[i])]
  IN  IF Truthy(anilistId)
      THEN [totalEpisodes |-> Len(anchors), episodes |-> episodes, anilistId |-> anilistId]
      ELSE [totalEpisodes |-> Len(anchors), episodes |-> episodes]

\* what extractEpisodesList returns when response.data.html is falsy
noHtmlResult == <<>>

\* what extractEpisodesList returns from its catch block
extractCatchResult == <<>>

-----------------------------------------------------------------------------
(* Responses of the two entry points *)

\* the emptiness test getEpisodesByAnilistId applies to the extractor's value
isEmptyData(data) ==
  \/ data = <<>>
  \/ DOMAIN data = {}

\* getEpisodesByAnilistId after extractEpisodesList has returned
byAnilistResponse(id, data) ==
  IF isEmptyData(data)
  THEN [success |-> FALSE, message |-> "Episodes not found for AniList ID"]
  ELSE [success |-> TRUE,
        results |-> [totalEpisodes |-> data.totalEpisodes,
                     episodes      |-> data.episodes,
                     anilistId     |-> parseInt(id)]]

\* getEpisodesByAnilistId when findInternalIdFromAnilist gave no id: the message
\* depends on the secondary metadata fetch, the outcome does not
notFoundResponse(resp) ==
  IF resp.kind = "media"
  THEN [success |-> FALSE, message |-> "Could not find <title> on our source"]
  ELSE [success |-> FALSE, message |-> "Could not find anime with AniList ID"]

\* getEpisodes when getInternalIdFromAnilistId gave no id
noAnimeResponse == [success |-> FALSE, message |-> "No anime found with AniList ID"]

\* a getEpisodes that hands the extractor's value back unwrapped
getEpisodesResponse_Bare(data) == data

\* getEpisodes after extractEpisodesList has returned
getEpisodesResponse(data) == [success |-> TRUE, results |-> data]

-----------------------------------------------------------------------------
(* Request slots *)

Procs == {"p1", "p2"}

Entries == {"getEpisodesByAnilistId", "getEpisodes"}

\* the cache an entry point's resolver reads and writes
cacheOf(entry) ==
  IF entry = "getEpisodesByAnilistId" THEN ANILIST_CACHE ELSE ANILIST_ID_CACHE

NoMedia ==
  [kind |-> "none", english |-> Null, romaji |-> Null, synonyms |-> NullList]

IdleReq ==
  [ entry       |-> "none",
    id          |-> <<>>,
    pc          |-> "idle",
    via         |-> "none",     \* how the internal id was obtained
    animeData   |-> NoMedia,    \* the resolver's metadata response
    idx         |-> 0,          \* position in the term list
    log         |-> <<>>,       \* outcome of each search answered so far
    internalId  |-> Null,
    metaCalls   |-> 0,          \* metadata calls issued by this request
    searchCalls |-> 0,          \* search calls issued by this request
    expect      |-> NoEntry,    \* history: firstResolved for this id when the request began
    listing     |-> "none",     \* history: how the episode-listing call was answered
    anchors     |-> <<>>,       \* the parsed listing fragment, between the two fetches
    data        |-> [pending |-> TRUE],   \* extractEpisodesList's return value
    result      |-> [pending |-> TRUE] ]  \* the entry point's return value

CanStart(p) == req[p].pc \in {"idle", "done"}

\* the request moves on to extractEpisodesList, whose first fetch is issued
toListing(r, via, internalId) ==
  [r EXCEPT !.pc = "listing", !.via = via, !.internalId = internalId]

\* the entry point returns
toDone(r, result) == [r EXCEPT !.pc = "done", !.result = result]

\* the resolver has returned v (an id, "" or null) to its entry point
afterResolve(r, via, v) ==
  IF Truthy(v) THEN toListing(r, via, v)
  ELSE IF r.entry = "getEpisodesByAnilistId"
       THEN [r EXCEPT !.pc = "errmeta", !.via = via, !.internalId = v,
                      !.metaCalls = @ + 1]
       ELSE toDone([r EXCEPT !.via = via, !.internalId = v], noAnimeResponse)

\* the for-loop moves to the next term, or the resolver returns null after the last
nextTerm(r) ==
  IF r.idx < Len(termsOf(r.entry, r.animeData))
  THEN [r EXCEPT !.idx = @ + 1, !.searchCalls = @ + 1]
  ELSE afterResolve(r, "notfound", Null)

\* a failed search: the controller's loop catches it per term, the helper's
\* loop has no inner try and leaves through the function's catch
afterSearchFailure(r) ==
  IF r.entry = "getEpisodesByAnilistId" THEN nextTerm(r)
  ELSE afterResolve(r, "error", Null)

\* after extractEpisodesList returned `data`
afterExtract(r, data) ==
  toDone([r EXCEPT !.data = data, !.anchors = <<>>],
         IF r.entry = "getEpisodesByAnilistId"
         THEN byAnilistResponse(r.id, data)
         ELSE getEpisodesResponse(data))

-----------------------------------------------------------------------------
(* Actions *)

\* a getEpisodesByAnilistId that goes to the cache and the resolver without
\* looking at the static table
GetEpisodesByAnilistId_NoStatic(p, id) ==
  /\ CanStart(p)
  /\ LET r == [IdleReq EXCEPT !.entry = "getEpisodesByAnilistId", !.id = id,
                              !.expect = firstResolved["getEpisodesByAnilistId"][id]]
     IN  req' = [req EXCEPT ![p] =
           IF cacheHas(ANILIST_CACHE, id)
           THEN toListing(r, "cache", cacheGet(ANILIST_CACHE, id))
           ELSE [r EXCEPT !.pc = "meta", !.metaCalls = 1]]
  /\ UNCHANGED <<ANILIST_ID_MAPPING, ANILIST_CACHE, ANILIST_ID_CACHE, firstResolved,
               remote, matcher, document>>

\* getEpisodesByAnilistId up to its first await
GetEpisodesByAnilistId(p, id) ==
  /\ CanStart(p)
  /\ LET r == [IdleReq EXCEPT !.entry = "getEpisodesByAnilistId", !.id = id,
                              !.expect = firstResolved["getEpisodesByAnilistId"][id]]
     IN  req' = [req EXCEPT ![p] =
           IF Truthy(lookup(ANILIST_ID_MAPPING, id))
           THEN toListing(r, "static", lookup(ANILIST_ID_MAPPING, id))
           ELSE IF cacheHas(ANILIST_CACHE, id)
           THEN toListing(r, "cache", cacheGet(ANILIST_CACHE, id))
           ELSE [r EXCEPT !.pc = "meta", !.metaCalls = 1]]
  /\ UNCHANGED <<ANILIST_ID_MAPPING, ANILIST_CACHE, ANILIST_ID_CACHE, firstResolved,
               remote, matcher, document>>

\* a getEpisodes whose resolver fetches the metadata before it looks at its cache
GetEpisodes_FetchFirst(p, id) ==
  /\ CanStart(p)
  /\ LET r == [IdleReq EXCEPT !.entry = "getEpisodes", !.id = id,
                              !.expect = firstResolved["getEpisodes"][id]]
     IN  req' = [req EXCEPT ![p] =
           IF ~isAnilistId(id) THEN toListing(r, "direct", id)
           ELSE [r EXCEPT !.pc = "meta", !.metaCalls = 1]]
  /\ UNCHANGED <<ANILIST_ID_MAPPING, ANILIST_CACHE, ANILIST_ID_CACHE, firstResolved,
               remote, matcher, document>>

\* getEpisodes up to its first await
GetEpisodes(p, id) ==
  /\ CanStart(p)
  /\ LET r == [IdleReq EXCEPT !.entry = "getEpisodes", !.id = id,
                              !.expect = firstResolved["getEpisodes"][id]]
     IN  req' = [req EXCEPT ![p] =
           IF ~isAnilistId(id) THEN toListing(r, "direct", id)
           ELSE IF cacheHas(ANILIST_ID_CACHE, id)
           THEN afterResolve(r, "cache", cacheGet(ANILIST_ID_CACHE, id))
           ELSE [r EXCEPT !.pc = "meta", !.metaCalls = 1]]
  /\ UNCHANGED <<ANILIST_ID_MAPPING, ANILIST_CACHE, ANILIST_ID_CACHE, firstResolved,
               remote, matcher, document>>

\* a resolver that, when its metadata arrives, gives up on an id that another
\* request has cached in the meantime
MetadataResponse_GiveUpIfCached(p, resp) ==
  /\ req[p].pc = "meta"
  /\ LET r == [req[p] EXCEPT !.animeData = resp]
     IN  req' = [req EXCEPT ![p] =
           IF resp.kind # "media" THEN
             afterResolve(r, IF resp.kind = "absent" THEN "unavailable" ELSE "error", Null)
           ELSE IF termsOf(r.entry, resp) = <<>> \/ cacheHas(cacheOf(r.entry), r.id)
           THEN afterResolve(r, "notfound", Null)
           ELSE [r EXCEPT !.pc = "search", !.idx = 1, !.searchCalls = 1]]
  /\ UNCHANGED <<ANILIST_ID_MAPPING, ANILIST_CACHE, ANILIST_ID_CACHE, firstResolved,
               remote, matcher, document>>

\* the resolver's metadata call is answered
MetadataResponse(p, resp) ==
  /\ req[p].pc = "meta"
  /\ LET r == [req[p] EXCEPT !.animeData = resp]
     IN  req' = [req EXCEPT ![p] =
           IF resp.kind # "media" THEN
             afterResolve(r, IF resp.kind = "absent" THEN "unavailable" ELSE "error", Null)
           ELSE IF termsOf(r.entry, resp) = <<>> THEN afterResolve(r, "notfound", Null)
           ELSE [r EXCEPT !.pc = "search", !.idx = 1, !.searchCalls = 1]]
  /\ UNCHANGED <<ANILIST_ID_MAPPING, ANILIST_CACHE, ANILIST_ID_CACHE, firstResolved,
               remote, matcher, document>>

\* the search call for the current term is answered
SearchResponse(p, resp) ==
  /\ req[p].pc = "search"
  /\ LET r    == req[p]
         term == termsOf(r.entry, r.animeData)[r.idx]
         o    == termOutcome(resp.items, term)
         hit  == resp.kind = "document" /\ o.kind # "none"
         rl   == [r EXCEPT !.log = Append(@,
                    IF resp.kind = "fail" THEN "fail" ELSE o.kind)]
     IN  /\ req' = [req EXCEPT ![p] =
              IF resp.kind = "fail" THEN afterSearchFailure(rl)
              ELSE IF hit THEN afterResolve(rl, o.kind, o.id)
              ELSE nextTerm(rl)]
         /\ IF hit /\ r.entry = "getEpisodesByAnilistId"
            THEN ANILIST_CACHE' = cacheSet(ANILIST_CACHE, r.id, o.id)
            ELSE UNCHANGED ANILIST_CACHE
         /\ IF hit /\ r.entry = "getEpisodes"
            THEN ANILIST_ID_CACHE' = cacheSet(ANILIST_ID_CACHE, r.id, o.id)
            ELSE UNCHANGED ANILIST_ID_CACHE
         /\ firstResolved' =
              IF hit /\ Truthy(o.id) /\ firstResolved[r.entry][r.id] = NoEntry
              THEN [firstResolved EXCEPT ![r.entry][r.id] = o.id]
              ELSE firstResolved
  /\ UNCHANGED <<ANILIST_ID_MAPPING, remote, matcher, document>>

\* an error path that resolves once more when the secondary fetch finds the record
ErrorInfoResponse_RetryOnRecord(p, resp) ==
  /\ req[p].pc = "errmeta"
  /\ req' = [req EXCEPT ![p] =
       IF resp.kind = "media"
       THEN [req[p] EXCEPT !.pc = "meta", !.metaCalls = @ + 1]
       ELSE toDone(req[p], notFoundResponse(resp))]
  /\ UNCHANGED <<ANILIST_ID_MAPPING, ANILIST_CACHE, ANILIST_ID_CACHE, firstResolved,
               remote, matcher, document>>

\* an error path that evicts the id's cache entry
ErrorInfoResponse_Evict(p, resp) ==
  /\ req[p].pc = "errmeta"
  /\ req' = [req EXCEPT ![p] = toDone(req[p], notFoundResponse(resp))]
  /\ ANILIST_CACHE' = [ANILIST_CACHE EXCEPT ![req[p].id] = NoEntry]
  /\ UNCHANGED <<ANILIST_ID_MAPPING, ANILIST_ID_CACHE, firstResolved, remote, matcher, document>>

\* an error path that remembers the failure in the cache
ErrorInfoResponse_NegativeCache(p, resp) ==
  /\ req[p].pc = "errmeta"
  /\ req' = [req EXCEPT ![p] = toDone(req[p], notFoundResponse(resp))]
  /\ ANILIST_CACHE' = cacheSet(ANILIST_CACHE, req[p].id, <<>>)
  /\ UNCHANGED <<ANILIST_ID_MAPPING, ANILIST_ID_CACHE, firstResolved,
               remote, matcher, document>>

\* the secondary metadata fetch of getEpisodesByAnilistId is answered
ErrorInfoResponse(p, resp) ==
  /\ req[p].pc = "errmeta"
  /\ req' = [req EXCEPT ![p] = toDone(req[p], notFoundResponse(resp))]
  /\ UNCHANGED <<ANILIST_ID_MAPPING, ANILIST_CACHE, ANILIST_ID_CACHE, firstResolved,
               remote, matcher, document>>

\* extractEpisodesList: the episode-listing call is answered
ListingResponse(p, resp) ==
  /\ req[p].pc = "listing"
  /\ req' = [req EXCEPT ![p] =
       LET r == [req[p] EXCEPT !.listing = resp.kind]
       IN  IF resp.kind = "fail" THEN afterExtract(r, extractCatchResult)
           ELSE IF resp.kind = "nohtml" THEN afterExtract(r, noHtmlResult)
           ELSE [r EXCEPT !.pc = "detail", !.anchors = resp.anchors]]
  /\ UNCHANGED <<ANILIST_ID_MAPPING, ANILIST_CACHE, ANILIST_ID_CACHE, firstResolved,
               remote, matcher, document>>

\* extractEpisodesList: the detail-page call is answered
DetailResponse(p, resp) ==
  /\ req[p].pc = "detail"
  /\ req' = [req EXCEPT ![p] =
       IF resp.kind = "fail" THEN afterExtract(req[p], extractCatchResult)
       ELSE afterExtract(req[p], episodesResult(req[p].anchors, syncAnilistId(resp)))]
  /\ UNCHANGED <<ANILIST_ID_MAPPING, ANILIST_CACHE, ANILIST_ID_CACHE, firstResolved,
               remote, matcher, document>>

-----------------------------------------------------------------------------
(* The outside world: request ids and the remote services' answers *)

MaxItems == 2      \* result items per search document
MaxEpisodes == 2   \* anchors per episode-listing fragment

SeqsUpTo(S, n) == UNION {[1..k -> S] : k \in 0..n}

ID_21 == <<"2","1">>      \* a key of the static table
ID_7 == <<"7">>        \* a numeric id the table does not hold
SLUG == <<"a","b","-","1">>       \* an internal id given directly

ByAnilistIds == {ID_21, ID_7}
GetEpisodesIds == {ID_21, ID_7, SLUG, <<>>}
CacheKeys == ByAnilistIds \cup GetEpisodesIds

Media(english, romaji, synonyms) ==
  [kind |-> "media", english |-> english, romaji |-> romaji, synonyms |-> synonyms]

MediaPool ==
  { Media(<<"A","b">>, <<"c","o","d","e">>, NullList),
    Media(Null, <<"a"," ","b",":","c">>, <<<<"z">>>>),
    Media(Null, <<>>, <<>>) }

\* no Media in the payload / the call throws / a Media whose title is null
MetadataResponses ==
  {[NoMedia EXCEPT !.kind = k] : k \in {"absent", "fail", "malformed"}} \cup MediaPool

ItemPool ==
  { [text |-> <<" ","A","b"," ">>, href |-> <<"/","a","b","-","1">>],
    [text |-> <<"C","a","d","e","!">>, href |-> <<"/","w","/","c","a","d","e">>],
    [text |-> <<"q">>, href |-> Undefined],
    [text |-> <<>>, href |-> <<"/","e","/">>] }

SearchResponses(n) ==
  {[kind |-> "fail", items |-> <<>>]}
    \cup {[kind |-> "document", items |-> its] : its \in SeqsUpTo(ItemPool, n)}

AnchorPool ==
  { [dataNumber |-> <<"1">>, href |-> <<"/","w","/","e","1">>, title |-> <<" ","O","n","e"," ">>,
     jname |-> <<"j">>, filler |-> FALSE],
    [dataNumber |-> <<"2">>, href |-> Undefined, title |-> Undefined,
     jname |-> Undefined, filler |-> TRUE] }

\* the call throws / no html in the payload / a fragment with its anchors
ListingResponses(n) ==
  {[kind |-> k, anchors |-> <<>>] : k \in {"fail", "nohtml"}}
    \cup {[kind |-> "html", anchors |-> a] : a \in SeqsUpTo(AnchorPool, n)}

\* the decimal numeral of n, as a data-number attribute carries it
RECURSIVE numeral(_)
numeral(n) ==
  IF n < 10 THEN <<DigitSeq[n + 1]>> ELSE numeral(n \div 10) \o <<DigitSeq[(n % 10) + 1]>>

\* a fragment of twelve anchors numbered 1..12, the seventh flagged as filler
TwelveAnchors ==
  [i \in 1..12 |->
     [dataNumber |-> numeral(i), href |-> <<"/","w","/","e">> \o numeral(i),
      title |-> <<"E">>, jname |-> Undefined, filler |-> (i = 7)]]

EpisodeListResponses ==
  ListingResponses(MaxEpisodes) \cup {[kind |-> "html", anchors |-> TwelveAnchors]}

\* the call throws / a page without #syncData / unparsable / parsed
DetailResponses ==
  {[kind |-> "fail", sync |-> "none", anilist_id |-> Null],
   [kind |-> "page", sync |-> "none", anilist_id |-> Null],
   [kind |-> "page", sync |-> "badjson", anilist_id |-> Null],
   [kind |-> "page", sync |-> "json", anilist_id |-> Null],
   [kind |-> "page", sync |-> "json", anilist_id |-> ID_7]}

-----------------------------------------------------------------------------
(* Specification: requests served one at a time *)

\* the remote answers are not tied to the request / no title is being compared
NoRemote == [meta |-> NoMedia, search |-> <<>>]
NoComparison == [title1 |-> <<>>, title2 |-> <<>>, out |-> [pending |-> TRUE]]
NoDocument == [items |-> <<>>, term |-> <<>>, out |-> [pending |-> TRUE]]

\* the module state once the controller and the helper are loaded
InitServer ==
  /\ ANILIST_ID_MAPPING = InitialMapping
  /\ ANILIST_CACHE = [k \in CacheKeys |-> NoEntry]
  /\ ANILIST_ID_CACHE = [k \in CacheKeys |-> NoEntry]
  /\ req = [p \in Procs |-> IdleReq]
  /\ firstResolved = [e \in Entries |-> [k \in CacheKeys |-> NoEntry]]

Init ==
  /\ InitServer
  /\ remote = NoRemote
  /\ matcher = NoComparison
  /\ document = NoDocument

Next ==
  \E p \in {"p1"} :
    \/ \E id \in ByAnilistIds : GetEpisodesByAnilistId(p, id)
    \/ \E id \in GetEpisodesIds : GetEpisodes(p, id)
    \/ \E resp \in MetadataResponses : MetadataResponse(p, resp)
    \/ \E resp \in SearchResponses(MaxItems) : SearchResponse(p, resp)
    \/ \E resp \in MetadataResponses : ErrorInfoResponse(p, resp)
    \/ \E resp \in EpisodeListResponses : ListingResponse(p, resp)
    \/ \E resp \in DetailResponses : DetailResponse(p, resp)

Spec == Init /\ [][Next]_vars

-----------------------------------------------------------------------------
(* Specification: as Spec, with the scheduling the event loop gives.  The    *)
(* metadata, listing and detail endpoints answer every call (with a document *)
(* or a failure) and the continuation then runs; the search endpoint may     *)
(* stay silent.  No axios call is given a timeout option and no default is   *)
(* configured, so no step stands for a timer that settles a pending call.    *)

Responsive(p) ==
  \/ \E resp \in MetadataResponses : MetadataResponse(p, resp)
  \/ \E resp \in MetadataResponses : ErrorInfoResponse(p, resp)
  \/ \E resp \in EpisodeListResponses : ListingResponse(p, resp)
  \/ \E resp \in DetailResponses : DetailResponse(p, resp)

SpecLive == Init /\ [][Next]_vars /\ WF_vars(Responsive("p1"))

-----------------------------------------------------------------------------
(* Specification: two requests in flight, interleaved at their awaits, with a *)
(* smaller choice of remote answers                                          *)

ConcIds == {ID_7}

ConcMetadataResponses ==
  {[NoMedia EXCEPT !.kind = "absent"]} \cup {m \in MediaPool : m.english # Null}

ConcSearchResponses ==
  {r \in SearchResponses(1) : \A i \in 1..Len(r.items) : Truthy(r.items[i].text)}

ConcListingResponses == {r \in ListingResponses(0) : r.kind # "fail"}

ConcDetailResponses == {r \in DetailResponses : r.sync = "none"}

NextConc ==
  \E p \in Procs :
    \/ \E id \in ConcIds : GetEpisodesByAnilistId(p, id)
    \/ \E id \in ConcIds : GetEpisodes(p, id)
    \/ \E resp \in ConcMetadataResponses : MetadataResponse(p, resp)
    \/ \E resp \in ConcSearchResponses : SearchResponse(p, resp)
    \/ \E resp \in ConcMetadataResponses : ErrorInfoResponse(p, resp)
    \/ \E resp \in ConcListingResponses : ListingResponse(p, resp)
    \/ \E resp \in ConcDetailResponses : DetailResponse(p, resp)

SpecConc == Init /\ [][NextConc]_vars

-----------------------------------------------------------------------------
(* Specification: two requests in flight while the remote services answer as *)
(* a fixed function of the request: one metadata answer for the id, one      *)
(* search answer per query term                                              *)

DetMetadataResponses ==
  {[NoMedia EXCEPT !.kind = "absent"]} \cup {m \in MediaPool : Truthy(m.romaji)}

DetSearchResponses ==
  {r \in SearchResponses(1) :
     \A i \in 1..Len(r.items) : Truthy(r.items[i].text) /\ Truthy(r.items[i].href)}

\* every query term either resolver can draw from a metadata answer
queryTerms(m) == IF m.kind = "media" THEN Range(allSearchTerms(m)) ELSE {}

Remotes ==
  UNION {{[meta |-> m, search |-> f] : f \in [queryTerms(m) -> DetSearchResponses]} :
           m \in DetMetadataResponses}

\* the query term whose search call request p is waiting for
currentTerm(p) == termsOf(req[p].entry, req[p].animeData)[req[p].idx]

InitDet ==
  /\ InitServer
  /\ remote \in Remotes
  /\ matcher = NoComparison
  /\ document = NoDocument

NextDet ==
  \E p \in Procs :
    \/ \E id \in ConcIds : GetEpisodesByAnilistId(p, id)
    \/ \E id \in ConcIds : GetEpisodes(p, id)
    \/ MetadataResponse(p, remote.meta)
    \/ req[p].pc = "search" /\ SearchResponse(p, remote.search[currentTerm(p)])
    \/ ErrorInfoResponse(p, remote.meta)
    \/ \E resp \in ConcListingResponses : ListingResponse(p, resp)
    \/ \E resp \in ConcDetailResponses : DetailResponse(p, resp)

SpecDet == InitDet /\ [][NextDet]_vars

-----------------------------------------------------------------------------
(* Specification: the title functions applied to titles drawn from a bounded *)
(* set                                                                       *)

MaxTitleLen == 4   \* characters per title

TitleChars == {"a", "B", "!", " "}
TermChars == {"a", "B"}

Titles == SeqsUpTo(TitleChars, MaxTitleLen)
FullTerms == [1..MaxTitleLen -> TermChars]

\* ten-letter titles at edit distance 2, 3 and 4 of each other
TenLetterPairs ==
  LET tenth(k) == [i \in 1..10 |-> IF i <= 10 - k THEN "a" ELSE "B"]
  IN  {<<tenth(0), tenth(k)>> : k \in 2..4} \cup {<<tenth(k), tenth(0)>> : k \in 2..4}

Applied(fn, value) == [matcher EXCEPT !.out = [fn |-> fn, value |-> value]]

ApplyIsReasonableMatch ==
  /\ matcher.out = [pending |-> TRUE]
  /\ matcher' = Applied("isReasonableMatch", isReasonableMatch(matcher.title1, matcher.title2))
  /\ UNCHANGED <<ANILIST_ID_MAPPING, ANILIST_CACHE, ANILIST_ID_CACHE, req, firstResolved, remote,
               document>>

ApplyLevenshteinDistance ==
  /\ matcher.out = [pending |-> TRUE]
  /\ matcher' = Applied("levenshteinDistance",
                   levenshteinDistance(normalize(matcher.title1), normalize(matcher.title2)))
  /\ UNCHANGED <<ANILIST_ID_MAPPING, ANILIST_CACHE, ANILIST_ID_CACHE, req, firstResolved, remote,
               document>>

ApplyNormalize ==
  /\ matcher.out = [pending |-> TRUE]
  /\ matcher' = Applied("normalize", normalize(matcher.title1))
  /\ UNCHANGED <<ANILIST_ID_MAPPING, ANILIST_CACHE, ANILIST_ID_CACHE, req, firstResolved, remote,
               document>>

ApplyCleanseTitle ==
  /\ matcher.out = [pending |-> TRUE]
  /\ matcher' = Applied("cleanseTitle", cleanseTitle(matcher.title1))
  /\ UNCHANGED <<ANILIST_ID_MAPPING, ANILIST_CACHE, ANILIST_ID_CACHE, req, firstResolved, remote,
               document>>

InitMatch ==
  /\ InitServer
  /\ remote = NoRemote
  /\ document = NoDocument
  /\ matcher \in {[NoComparison EXCEPT !.title1 = ab[1], !.title2 = ab[2]] :
                    ab \in {xy \in Titles \X (Titles \cup FullTerms) :
                              xy[2] \in FullTerms \/ xy[2] = xy[1]}
                            \cup TenLetterPairs}

NextMatch ==
  \/ ApplyIsReasonableMatch
  \/ ApplyLevenshteinDistance
  \/ ApplyNormalize
  \/ ApplyCleanseTitle

SpecMatch == InitMatch /\ [][NextMatch]_vars

-----------------------------------------------------------------------------
(* Specification: levenshteinDistance applied to normalized strings drawn    *)
(* from a bounded set                                                        *)

MaxStrLen == 3   \* characters per normalized string

NormalizedChars == {"a", "b"}

InitDistance ==
  /\ InitServer
  /\ remote = NoRemote
  /\ document = NoDocument
  /\ matcher \in {[NoComparison EXCEPT !.title1 = a, !.title2 = b] :
                    a \in SeqsUpTo(NormalizedChars, MaxStrLen),
                    b \in SeqsUpTo(NormalizedChars, MaxStrLen)}

NextDistance == ApplyLevenshteinDistance

SpecDistance == InitDistance /\ [][NextDistance]_vars

-----------------------------------------------------------------------------
(* Specification: the loop body of the resolvers applied to search documents *)
(* drawn from a bounded set                                                  *)

DocumentItems ==
  { [text |-> <<"A","b","c">>, href |-> <<"/","a","b","c","-","2">>],
    [text |-> <<" ","A","b"," ">>, href |-> <<"/","a","b","-","1">>],
    [text |-> <<"C","a","d","e","!">>, href |-> <<"/","w","/","c","a","d","e">>],
    [text |-> <<"c","o","d","e">>, href |-> <<"/","c","o","d","e","-","9">>],
    [text |-> <<"q">>, href |-> Undefined],
    [text |-> <<>>, href |-> <<"/","e","/","x">>],
    [text |-> <<"Z","e","d">>, href |-> <<"/","e","/">>] }

DocumentTerms == { <<"A","b">>, <<"c","o","d","e">> }

ApplyFoundAnimes ==
  /\ document.out = [pending |-> TRUE]
  /\ document' = [document EXCEPT !.out =
                    [fn |-> "foundAnimes", value |-> foundAnimes(document.items)]]
  /\ UNCHANGED <<ANILIST_ID_MAPPING, ANILIST_CACHE, ANILIST_ID_CACHE, req, firstResolved,
               remote, matcher>>

ApplyTermOutcome ==
  /\ document.out = [pending |-> TRUE]
  /\ document' = [document EXCEPT !.out =
                    [fn |-> "termOutcome", value |-> termOutcome(document.items, document.term)]]
  /\ UNCHANGED <<ANILIST_ID_MAPPING, ANILIST_CACHE, ANILIST_ID_CACHE, req, firstResolved,
               remote, matcher>>

InitDocument ==
  /\ InitServer
  /\ remote = NoRemote
  /\ matcher = NoComparison
  /\ document \in {[NoDocument EXCEPT !.items = its, !.term = t] :
                     its \in SeqsUpTo(DocumentItems, MaxItems), t \in DocumentTerms}

NextDocument ==
  \/ ApplyFoundAnimes
  \/ ApplyTermOutcome

SpecDocument == InitDocument /\ [][NextDocument]_vars

-----------------------------------------------------------------------------
(* Properties *)

\* the resolver of request slot p has returned to its entry point
Resolved(p) == req[p].pc \in {"errmeta", "listing", "detail", "done"}

\* in this step the resolver of p accepts a candidate and returns its id
Accepts(p) == req[p].pc = "search" /\ req'[p].via \in {"match", "fallback"}

\* a metadata record that yields no query term
NoTitles(m) ==
  /\ m.kind = "media"
  /\ ~Truthy(m.english) /\ ~Truthy(m.romaji)
  /\ \A i \in 1..Len(synonymsOf(m)) : ~Truthy(synonymsOf(m)[i])

(* C1: in getEpisodesByAnilistId an id that is a key of the static table is   *)
(* resolved to the table's value with no metadata call and no search call,   *)
(* and the cache never gets an entry for it.                                 *)
C1_StaticHitNoCalls ==
  /\ \A p \in Procs :
       (/\ req[p].entry = "getEpisodesByAnilistId"
        /\ req[p].id \in DOMAIN ANILIST_ID_MAPPING)
       => /\ req[p].via = "static"
          /\ req[p].internalId = ANILIST_ID_MAPPING[req[p].id]
          /\ req[p].metaCalls = 0 /\ req[p].searchCalls = 0
          /\ req[p].pc \in {"listing", "detail", "done"}
  /\ \A k \in CacheKeys \cap DOMAIN ANILIST_ID_MAPPING : ~cacheHas(ANILIST_CACHE, k)

C1_Witness ==
  /\ req["p1"].entry = "getEpisodesByAnilistId" /\ req["p1"].id = ID_21
  /\ req["p1"].pc = "done" /\ req["p1"].result.success
  /\ req["p1"].internalId = <<"o","n","e","-","p","i","e","c","e","-","1","0","0">>

(* C2 as claimed: a request for a non-static id that begins after a          *)
(* resolution of that id has succeeded returns the id that first resolution  *)
(* returned, with no metadata call and no search call.                       *)
C2_LaterResolveSameId ==
  \A p \in Procs :
    (req[p].expect # NoEntry /\ req[p].id \notin DOMAIN ANILIST_ID_MAPPING)
    => /\ req[p].internalId = req[p].expect
       /\ req[p].metaCalls = 0 /\ req[p].searchCalls = 0

(* C2 as amended: such a request is answered from the cache with no metadata *)
(* call and no search call, and the id it gets is the one the cache holds    *)
(* when it begins (a resolution of the same id that was in flight may have   *)
(* replaced the first one's value).                                          *)
C2_LaterResolveFromCache ==
  /\ [](\A p \in Procs :
          (req[p].expect # NoEntry /\ req[p].id \notin DOMAIN ANILIST_ID_MAPPING)
          => /\ req[p].via = "cache"
             /\ req[p].metaCalls = 0 /\ req[p].searchCalls = 0)
  /\ [][\A p \in Procs :
          (/\ CanStart(p) /\ req'[p] # req[p]
           /\ req'[p].expect # NoEntry
           /\ req'[p].id \notin DOMAIN ANILIST_ID_MAPPING)
          => req'[p].internalId = cacheOf(req'[p].entry)[req'[p].id]]_vars

C2_Witness ==
  /\ req["p1"].expect # NoEntry /\ req["p1"].pc = "done" /\ req["p1"].via = "cache"
  /\ req["p1"].internalId # req["p1"].expect

(* C3: on both entry points an id that is a key of the static table is        *)
(* resolved to the table's value, without the cache and without any          *)
(* metadata or search call.                                                  *)
C3_StaticFirstOnEveryPath ==
  \A p \in Procs :
    (req[p].entry \in Entries /\ req[p].id \in DOMAIN ANILIST_ID_MAPPING)
    => /\ req[p].via = "static"
       /\ req[p].metaCalls = 0 /\ req[p].searchCalls = 0
       /\ (Resolved(p) => req[p].internalId = ANILIST_ID_MAPPING[req[p].id])

(* C4: when the metadata answer holds no record, or a record without any     *)
(* usable title, the resolver returns null and no search call is issued.     *)
C4_NoRecordNoSearch ==
  \A p \in Procs :
    (req[p].animeData.kind = "absent" \/ NoTitles(req[p].animeData))
    => /\ req[p].searchCalls = 0
       /\ req[p].log = <<>>
       /\ Resolved(p)
       /\ req[p].internalId = Null
       /\ (req[p].pc = "done" => ~req[p].result.success)

C4_Witness ==
  /\ req["p1"].animeData.kind = "absent"
  /\ req["p1"].pc = "done" /\ ~req["p1"].result.success

C4_WitnessNoTerms == NoTitles(req["p1"].animeData) /\ req["p1"].pc = "done"

(* C5: in the step in which the resolver accepts a candidate, the cache of   *)
(* its entry point maps the request's id to exactly the id that is returned. *)
C5_AcceptedIdIsCached ==
  [][\A p \in Procs :
       Accepts(p)
       => /\ cacheHas(cacheOf(req[p].entry)', req[p].id)
          /\ cacheOf(req[p].entry)'[req[p].id] = req'[p].internalId]_vars

C5_Witness ==
  /\ req["p1"].entry = "getEpisodesByAnilistId" /\ req["p1"].id = ID_7
  /\ req["p1"].via = "match" /\ req["p1"].log = <<"match">>
  /\ req["p1"].internalId = <<"a","b","-","1">>
  /\ ANILIST_CACHE[ID_7] = <<"a","b","-","1">>

C7_FailedTermContinues ==
  \A p \in Procs :
    (/\ req[p].animeData.kind = "media"
     /\ Resolved(p)
     /\ req[p].via \in {"notfound", "error"})
    => Len(req[p].log) = Len(termsOf(req[p].entry, req[p].animeData))

(* C8: whatever the remote calls answer, a finished request carries a        *)
(* result with a boolean success field, and a message when success is false. *)
C8_StructuredResult ==
  \A p \in Procs :
    /\ req[p].pc \in {"idle", "meta", "search", "errmeta", "listing", "detail", "done"}
    /\ req[p].pc = "done"
       => /\ "success" \in DOMAIN req[p].result
          /\ req[p].result.success \in BOOLEAN
          /\ (~req[p].result.success => "message" \in DOMAIN req[p].result)

C8_Witness ==
  /\ req["p1"].entry = "getEpisodesByAnilistId" /\ req["p1"].pc = "done"
  /\ req["p1"].via = "fallback" /\ req["p1"].listing = "fail"
  /\ ~req["p1"].result.success

(* C9: every value extractEpisodesList returns has totalEpisodes equal to    *)
(* the length of episodes.                                                   *)
C9_TotalEqualsLength ==
  \A p \in Procs :
    req[p].data # [pending |-> TRUE]
    => /\ {"totalEpisodes", "episodes"} \subseteq DOMAIN req[p].data
       /\ req[p].data.totalEpisodes = Len(req[p].data.episodes)

(* C10: when the payload of the episode-listing call holds no fragment,      *)
(* extractEpisodesList returns totalEpisodes 0 with no episodes, the value   *)
(* it returns for a fragment without items.                                  *)
C10_AbsentFragmentIsEmptyCollection ==
  \A p \in Procs :
    (req[p].listing = "nohtml" /\ req[p].pc = "done")
    => req[p].data \in {episodesResult(<<>>, a) : a \in {Null, ID_7}}

(* C11: in every collection extractEpisodesList returns, the episodes are in *)
(* ascending order of their episode number, whatever the order of the        *)
(* anchors in the listing fragment.                                          *)
C11_EpisodesAscending ==
  \A p \in Procs :
    (req[p].data # [pending |-> TRUE] /\ req[p].data # <<>>)
    => \A i, j \in 1..Len(req[p].data.episodes) :
         i < j => req[p].data.episodes[i].episode_no <= req[p].data.episodes[j].episode_no

(* C12: a key a cache holds is still a key of it after every step, and its   *)
(* value is changed only by a step in which the resolver of that entry point *)
(* accepts a candidate for that same key.                                    *)
C12_KeysStayValuesOverwritten ==
  [][\A e \in Entries : \A k \in CacheKeys :
       cacheHas(cacheOf(e), k)
       => /\ cacheHas(cacheOf(e)', k)
          /\ cacheOf(e)'[k] # cacheOf(e)[k]
             => \E p \in Procs : Accepts(p) /\ req[p].entry = e /\ req[p].id = k]_vars

\* the entry of id 7 has been overwritten by a second resolution and is still there
C12_Witness ==
  /\ firstResolved["getEpisodesByAnilistId"][ID_7] # NoEntry
  /\ cacheHas(ANILIST_CACHE, ID_7)
  /\ ANILIST_CACHE[ID_7] # firstResolved["getEpisodesByAnilistId"][ID_7]
  /\ req["p1"].pc = "done" /\ req["p2"].pc = "done"

\* request p went through its resolver's metadata fetch, and the resolver has returned
RanResolver(p) ==
  Resolved(p) /\ req[p].via \in {"match", "fallback", "notfound", "error", "unavailable"}

(* C13: when the remote answers are a function of the request, two requests  *)
(* of one entry point that both resolve the same uncached id get the same    *)
(* internal id, and once both resolvers have returned an accepted id the     *)
(* cache maps the id to that value.                                          *)
C13_RacingResolversAgree ==
  \A p, q \in Procs :
    (RanResolver(p) /\ RanResolver(q)
     /\ req[p].entry = req[q].entry /\ req[p].id = req[q].id)
    => /\ req[p].internalId = req[q].internalId
       /\ req[p].via = req[q].via
       /\ req[p].via \in {"match", "fallback"}
          => cacheOf(req[p].entry)[req[p].id] = req[p].internalId

C13_Witness ==
  /\ req["p1"].entry = "getEpisodes" /\ req["p2"].entry = "getEpisodes"
  /\ req["p1"].pc = "done" /\ req["p2"].pc = "done"
  /\ req["p1"].via = "fallback" /\ req["p2"].via = "fallback"
  /\ req["p1"].log = <<"none", "fallback">>
  /\ ANILIST_ID_CACHE[ID_7] = req["p2"].internalId

(* C14: every call of a resolver returns in the end, an internal id or null, *)
(* even when a metadata or search call it has issued is never answered.      *)
C14_ResolveEventuallyReturns ==
  \A p \in Procs : (req[p].pc \in {"meta", "search"}) ~> Resolved(p)

\* one decimal digit or more and nothing else
DigitsOnly(id) == Len(id) >= 1 /\ Range(id) \subseteq Digits

(* C15: getEpisodes routes by the digits-only test alone.  An id that is not *)
(* digits-only, the empty string included, goes to the extraction as the     *)
(* internal id with no metadata call and no search call, and no step of such *)
(* a request changes a cache; a digits-only id reaches the extraction only   *)
(* with an id its resolver returned.                                         *)
C15_RoutedByDigitsOnly ==
  /\ [](\A p \in Procs :
          req[p].entry = "getEpisodes"
          => IF DigitsOnly(req[p].id)
             THEN /\ req[p].via # "direct"
                  /\ (req[p].pc \in {"listing", "detail"} \/ req[p].data # [pending |-> TRUE])
                     => /\ req[p].via \in {"cache", "match", "fallback"}
                        /\ Truthy(req[p].internalId)
             ELSE /\ req[p].via = "direct"
                  /\ req[p].internalId = req[p].id
                  /\ req[p].metaCalls = 0 /\ req[p].searchCalls = 0
                  /\ req[p].pc \in {"listing", "detail", "done"})
  /\ [][\A p \in Procs :
          (/\ req'[p] # req[p]
           /\ req'[p].entry = "getEpisodes"
           /\ ~DigitsOnly(req'[p].id))
          => UNCHANGED <<ANILIST_CACHE, ANILIST_ID_CACHE>>]_vars

C15_Witness ==
  /\ req["p1"].entry = "getEpisodes" /\ req["p1"].id = <<>>
  /\ req["p1"].via = "direct" /\ req["p1"].pc = "done"
  /\ req["p1"].result.success
  /\ cacheHas(ANILIST_ID_CACHE, ID_7)

\* the pair under comparison falls through to the similarity score
ScoredPair ==
  LET n1 == normalize(matcher.title1)
      n2 == normalize(matcher.title2)
  IN  /\ Truthy(matcher.title1) /\ Truthy(matcher.title2)
      /\ n1 # n2 /\ ~includes(n1, n2) /\ ~includes(n2, n1)

AppliedFn(fn) == matcher.out # [pending |-> TRUE] /\ matcher.out.fn = fn

(* C16: a non-empty title compared with itself is accepted, and the edit     *)
(* distance of its normalized form to itself is 0, which makes the score     *)
(* (longerLength - distance) / longerLength equal to 1.                      *)
C16_SelfMatchScoresOne ==
  (matcher.title1 = matcher.title2 /\ matcher.title1 # <<>>)
  => /\ AppliedFn("isReasonableMatch") => matcher.out.value = TRUE
     /\ AppliedFn("levenshteinDistance") => matcher.out.value = 0

C16_Witness ==
  /\ AppliedFn("isReasonableMatch")
  /\ matcher.title1 = matcher.title2
  /\ matcher.title1 = <<"a", "!", " ", "B">>
  /\ matcher.out.value = TRUE

(* C17: the edit distance of two normalized titles, hence the similarity     *)
(* score, is the same in both argument orders, and so is the matcher's       *)
(* verdict.                                                                  *)
C17_ScoreSymmetric ==
  /\ AppliedFn("levenshteinDistance")
     => matcher.out.value
          = levenshteinDistance(normalize(matcher.title2), normalize(matcher.title1))
  /\ AppliedFn("isReasonableMatch")
     => matcher.out.value = isReasonableMatch(matcher.title2, matcher.title1)

\* a pair of different lengths that only the score accepts
C17_Witness ==
  /\ AppliedFn("isReasonableMatch")
  /\ ScoredPair
  /\ Len(normalize(matcher.title1)) < Len(normalize(matcher.title2))
  /\ matcher.out.value = TRUE

(* C18: normalizing a normalized title changes nothing, for the normalize of *)
(* isReasonableMatch and for cleanseTitle.                                   *)
C18_NormalizersIdempotent ==
  /\ AppliedFn("normalize") => normalize(matcher.out.value) = matcher.out.value
  /\ AppliedFn("cleanseTitle") => cleanseTitle(matcher.out.value) = matcher.out.value

C18_Witness ==
  /\ AppliedFn("cleanseTitle")
  /\ matcher.title1 = <<" ", "!", " ", "B">>
  /\ matcher.out.value = <<"b">>

\* what the anchors `a` become in the value `d` extractEpisodesList returns
RecordsOf(a, d) ==
  /\ d # <<>>
  /\ d.totalEpisodes = Len(a)
  /\ Len(d.episodes) = Len(a)
  /\ \A i \in 1..Len(a) :
       /\ d.episodes[i].episode_no = Number(a[i].dataNumber)
       /\ d.episodes[i].filler = a[i].filler

(* C19: for a listing fragment of n anchors extractEpisodesList returns n    *)
(* records in the anchors' order, record i with anchor i's number and with   *)
(* filler exactly where anchor i is flagged.                                 *)
C19_ItemsBecomeRecords ==
  [][\A p \in Procs :
       (req[p].pc = "detail" /\ req'[p].pc = "done")
       => RecordsOf(req[p].anchors, req'[p].data)]_vars

\* the same, for the steps in which the detail-page call is answered with a page
ItemsBecomeRecordsWhenDetailAnswers ==
  [][\A p \in Procs :
       (req[p].pc = "detail" /\ req'[p].pc = "done" /\ req'[p].data # extractCatchResult)
       => RecordsOf(req[p].anchors, req'[p].data)]_vars

\* the twelve-anchor fragment has become twelve records, the seventh a filler
TwelveRecordsSeventhFiller ==
  /\ req["p1"].pc = "done" /\ req["p1"].listing = "html"
  /\ req["p1"].data # extractCatchResult
  /\ req["p1"].data.totalEpisodes = 12
  /\ \A i \in 1..12 : /\ req["p1"].data.episodes[i].episode_no = i
                       /\ req["p1"].data.episodes[i].filler = (i = 7)

(* C20: a resolver returns the first candidate of a result set no title of   *)
(* which matched only when every query term has been searched.               *)
C20_FallbackAfterAllTerms ==
  \A p \in Procs :
    req[p].via = "fallback"
    => Len(req[p].log) = Len(termsOf(req[p].entry, req[p].animeData))

\* the english title, the romaji title, then the synonyms in list order, each
\* where it is present
TitlesThenSynonyms(m) ==
  LET one(t) == IF Truthy(t) THEN <<t>> ELSE <<>>
      syn[i \in 0..Len(synonymsOf(m))] ==
        IF i = 0 THEN <<>> ELSE syn[i - 1] \o one(synonymsOf(m)[i])
  IN  one(m.english) \o one(m.romaji) \o syn[Len(synonymsOf(m))]

\* the terms request p has issued a search call for, in the order of the calls
Searched(p) == SubSeq(termsOf(req[p].entry, req[p].animeData), 1, req[p].idx)

IsPrefix(s, t) == Len(s) <= Len(t) /\ SubSeq(t, 1, Len(s)) = s

\* one search call at a time, each issued after every earlier one was answered
\* without an accepted candidate, and none after a candidate was accepted
OneAtATimeUntilAccepted(p) ==
  /\ req[p].searchCalls = req[p].idx
  /\ Len(req[p].log) = (IF req[p].pc = "search" THEN req[p].idx - 1 ELSE req[p].idx)
  /\ \A i \in 1..(Len(req[p].log) - 1) : req[p].log[i] \in {"none", "fail"}
  /\ req[p].via \in {"match", "fallback"}
     => req[p].log # <<>> /\ req[p].log[Len(req[p].log)] = req[p].via

(* C21 as claimed: the terms searched are, in this order, the english title, *)
(* the romaji title and the synonyms, one at a time, a later one only after  *)
(* every earlier one was answered without an accepted candidate, and none    *)
(* after a candidate was accepted.                                           *)
C21_TermsInOrder ==
  \A p \in Procs :
    req[p].animeData.kind = "media"
    => /\ IsPrefix(Searched(p), TitlesThenSynonyms(req[p].animeData))
       /\ OneAtATimeUntilAccepted(p)

(* C21 as amended: the same, where the resolver of getEpisodesByAnilistId    *)
(* goes on, after the last synonym, to the part before the first colon of    *)
(* each term, when that part contains a space and is not a term already.     *)
C21_TermsInOrderThenFirstParts ==
  \A p \in Procs :
    req[p].animeData.kind = "media"
    => LET base == TitlesThenSynonyms(req[p].animeData)
           parts == [i \in 1..Len(base) |-> trim(splitFirst(base[i], ":"))]
           extra == SelectSeq(parts, LAMBDA t : /\ t # <<>>
                                                /\ " " \in Range(t)
                                                /\ t \notin Range(base))
       IN  /\ IsPrefix(Searched(p),
                     IF req[p].entry = "getEpisodesByAnilistId" THEN base \o extra ELSE base)
           /\ OneAtATimeUntilAccepted(p)

\* the synonym and then the first part have been searched, and the first part matched
C21_Witness ==
  /\ req["p1"].entry = "getEpisodesByAnilistId"
  /\ Searched("p1") = << <<"a"," ","b",":","c">>, <<"z">>, <<"a"," ","b">> >>
  /\ req["p1"].log = <<"none", "fail", "match">>
  /\ req["p1"].searchCalls = 3
  /\ req["p1"].pc = "done"

DocumentFn(fn) == document.out # [pending |-> TRUE] /\ document.out.fn = fn

\* the score of a candidate title against a term as a fraction <<numerator,
\* denominator>>: 1 for equal normalized titles, 0.9 when one contains the
\* other, (longerLength - distance) / longerLength otherwise
ScoreOf(title, term) ==
  LET n1 == normalize(title)
      n2 == normalize(term)
      longerLength == Max2(Len(n1), Len(n2))
  IN  IF n1 = n2 THEN <<10, 10>>
      ELSE IF includes(n1, n2) \/ includes(n2, n1) THEN <<9, 10>>
      ELSE <<longerLength - levenshteinDistance(n1, n2), longerLength>>

Higher(a, b) == a[1] * b[2] > b[1] * a[2]

(* C22: when candidates of a term's result set are acceptable, the one the   *)
(* resolver returns has the highest score against the term among them.       *)
C22_HighestScoringCandidate ==
  (DocumentFn("termOutcome") /\ document.out.value.kind = "match")
  => LET found == foundAnimes(document.items)
         acceptable == {i \in 1..Len(found) : isReasonableMatch(found[i].title, document.term)}
     IN  \E i \in acceptable :
           /\ found[i].id = document.out.value.id
           /\ \A j \in acceptable :
                ~Higher(ScoreOf(found[j].title, document.term),
                        ScoreOf(found[i].title, document.term))

\* a result item with a non-empty title and a link with a non-empty last segment
ValidItem(it) ==
  /\ Truthy(trim(it.text))
  /\ Truthy(it.href)
  /\ Truthy(splitPop(it.href, "/"))

(* C23: an id the loop body accepts from a search document, as a match or as *)
(* the first-candidate fallback, comes from a document with at least one     *)
(* item whose title and id are both non-empty.                               *)
C23_AcceptedFromValidDocument ==
  (DocumentFn("termOutcome") /\ document.out.value.kind \in {"match", "fallback"})
  => \E k \in 1..Len(document.items) : ValidItem(document.items[k])

(* C24: every candidate built from a search document has a non-empty title   *)
(* and a non-empty id.                                                       *)
C24_CandidatesHaveTitleAndId ==
  DocumentFn("foundAnimes")
  => \A i \in 1..Len(document.out.value) :
       Truthy(document.out.value[i].title) /\ Truthy(document.out.value[i].id)

\* the candidates are the items that have a link, in the items' order
CandidatesAreLinkedItems ==
  DocumentFn("foundAnimes")
  => Len(document.out.value) = Len(SelectSeq(document.items, LAMBDA it : Truthy(it.href)))

\* one normalized title is a proper substring of the other
ProperSubstring ==
  LET n1 == normalize(matcher.title1)
      n2 == normalize(matcher.title2)
  IN  n1 # n2 /\ (includes(n1, n2) \/ includes(n2, n1))

(* C25 as claimed: whenever one normalized title is a proper substring of    *)
(* the other, the matcher accepts, whatever the two lengths.                 *)
C25_SubstringAccepted ==
  (AppliedFn("isReasonableMatch") /\ ProperSubstring) => matcher.out.value = TRUE

(* C25 as amended: the same for two non-empty titles; an empty title is      *)
(* rejected before anything is normalized.                                   *)
C25_SubstringOfNonEmptyAccepted ==
  AppliedFn("isReasonableMatch")
  => /\ (ProperSubstring /\ matcher.title1 # <<>> /\ matcher.title2 # <<>>)
        => matcher.out.value = TRUE
     /\ (matcher.title1 = <<>> \/ matcher.title2 = <<>>) => matcher.out.value = FALSE

\* a one-letter title inside a four-letter one: longerLength 4, distance 3
C25_Witness ==
  /\ AppliedFn("isReasonableMatch")
  /\ ProperSubstring
  /\ Len(normalize(matcher.title1)) = 1 /\ Len(normalize(matcher.title2)) = 4
  /\ matcher.out.value = TRUE

(* C26: a pair that falls through to the similarity score is accepted        *)
(* exactly when (longerLength - distance) / longerLength is greater than     *)
(* 0.7; a score of exactly 0.7 is rejected.                                  *)
C26_StrictlyAboveThreshold ==
  (AppliedFn("isReasonableMatch") /\ ScoredPair)
  => LET n1 == normalize(matcher.title1)
         n2 == normalize(matcher.title2)
         longerLength == IF Len(n1) >= Len(n2) THEN Len(n1) ELSE Len(n2)
         distance == levenshteinDistance(n1, n2)
     IN  matcher.out.value = (10 * (longerLength - distance) > 7 * longerLength)

\* edit distance 3 over length 10: a score of exactly 0.7, rejected
C26_Witness ==
  /\ AppliedFn("isReasonableMatch") /\ ScoredPair
  /\ Len(normalize(matcher.title1)) = 10 /\ Len(normalize(matcher.title2)) = 10
  /\ levenshteinDistance(normalize(matcher.title1), normalize(matcher.title2)) = 3
  /\ matcher.out.value = FALSE

\* the strings one insertion, deletion or substitution away from s, with the
\* characters of `chars` and no longer than `cap`
OneEdit(s, chars, cap) ==
  {SubSeq(s, 1, k - 1) \o SubSeq(s, k + 1, Len(s)) : k \in 1..Len(s)}
    \cup {[s EXCEPT ![k] = c] : k \in 1..Len(s), c \in chars}
    \cup (IF Len(s) < cap
          THEN {SubSeq(s, 1, k) \o <<c>> \o SubSeq(s, k + 1, Len(s)) :
                  k \in 0..Len(s), c \in chars}
          ELSE {})

\* the least number of edits after which t is among the strings reached
RECURSIVE EditsToReach(_, _, _, _, _)
EditsToReach(reached, t, chars, cap, k) ==
  IF t \in reached THEN k
  ELSE EditsToReach(reached \cup UNION {OneEdit(u, chars, cap) : u \in reached},
                    t, chars, cap, k + 1)

\* the minimum number of one-character edits that turn s into t (a shortest
\* sequence of edits needs no string longer than the longer of the two)
MinEdits(s, t) ==
  EditsToReach({s}, t, Range(s) \cup Range(t), Max2(Len(s), Len(t)), 0)

(* C27: levenshteinDistance of two normalized strings is the minimum number  *)
(* of insertions, deletions and substitutions that turn one into the other,  *)
(* and lies between 0 and the longer length, so that the similarity          *)
(* (longerLength - distance) / longerLength lies between 0 and 1.            *)
C27_DistanceIsMinimumEdits ==
  AppliedFn("levenshteinDistance")
  => LET n1 == normalize(matcher.title1)
         n2 == normalize(matcher.title2)
     IN  /\ matcher.out.value = MinEdits(n1, n2)
         /\ matcher.out.value >= 0
         /\ matcher.out.value <= Max2(Len(n1), Len(n2))

\* a deletion and a substitution: "aba" to "bb"
C27_Witness ==
  /\ AppliedFn("levenshteinDistance")
  /\ matcher.title1 = <<"a", "b", "a">> /\ matcher.title2 = <<"b", "b">>
  /\ matcher.out.value = 2

(* C28: every value a cache holds is a non-empty internal id, and a request  *)
(* answered from the cache goes to the episode extractor with a non-empty    *)
(* id.                                                                       *)
C28_CachedIdsNonEmpty ==
  /\ \A e \in Entries : \A k \in CacheKeys :
       cacheHas(cacheOf(e), k) => Truthy(cacheOf(e)[k])
  /\ \A p \in Procs :
       (req[p].via = "cache" /\ req[p].pc \in {"listing", "detail"})
       => Truthy(req[p].internalId)

(* C29: isReasonableMatch accepts only pairs in which both titles normalize  *)
(* to a non-empty string.                                                    *)
C29_NoAcceptOnEmptyNormalized ==
  (AppliedFn("isReasonableMatch") /\ matcher.out.value = TRUE)
  => normalize(matcher.title1) # <<>> /\ normalize(matcher.title2) # <<>>

(* C30: when a resolver has run and its entry point got no internal id from  *)
(* it, the cache of that entry point has no entry for the id, so that the    *)
(* next request for the id fetches the metadata and searches again.          *)
C30_NotFoundStoresNothing ==
  \A p \in Procs :
    (RanResolver(p) /\ ~Truthy(req[p].internalId))
    => ~cacheHas(cacheOf(req[p].entry), req[p].id)

\* the same for the resolutions that ended with null: nothing is remembered
NullResolutionStoresNothing ==
  \A p \in Procs :
    (Resolved(p) /\ req[p].via \in {"notfound", "error", "unavailable"})
    => /\ req[p].internalId = Null
       /\ ~cacheHas(cacheOf(req[p].entry), req[p].id)

(* C31: when the resolver of getEpisodesByAnilistId has given no id, the     *)
(* step that answers the secondary metadata fetch ends the request with      *)
(* success false, without a cache write and without an episode fetch, and    *)
(* apart from the message the request ends the same way whatever that fetch  *)
(* answered.                                                                 *)
C31_OutcomeIndependentOfErrorInfo ==
  /\ [](\A p \in Procs :
          req[p].pc = "errmeta"
          => /\ req[p].entry = "getEpisodesByAnilistId"
             /\ ~Truthy(req[p].internalId)
             /\ req[p].listing = "none")
  /\ [][\A p \in Procs :
          (req[p].pc = "errmeta" /\ req'[p] # req[p])
          => /\ DOMAIN req'[p].result = {"success", "message"}
             /\ [req'[p] EXCEPT !.result = [success |-> req'[p].result.success]]
                  = [req[p] EXCEPT !.pc = "done", !.result = [success |-> FALSE]]
             /\ UNCHANGED <<ANILIST_ID_MAPPING, ANILIST_CACHE, ANILIST_ID_CACHE>>]_vars

\* no candidate was found, and the secondary fetch found the record: the
\* message names the title, the outcome is still a failure
C31_Witness ==
  /\ req["p1"].entry = "getEpisodesByAnilistId" /\ req["p1"].pc = "done"
  /\ req["p1"].via = "notfound" /\ req["p1"].log = <<"none", "fail">>
  /\ req["p1"].result = [success |-> FALSE,
                          message |-> "Could not find <title> on our source"]
  /\ req["p1"].listing = "none" /\ req["p1"].data = [pending |-> TRUE]
  /\ ~cacheHas(ANILIST_CACHE, ID_7)

=============================================================================
